---------------------------- MODULE Spec2Model ----------------------------
(* Model of lucid/visualization/hierarchical_tree.py: the greedy n-ary     *)
(* tree induction over a Ruleset (term counting, partitioning, recursive   *)
(* extraction) and the annotation pass over the resulting tree.            *)
(*                                                                         *)
(* Strings are modelled as sequences of tokens, so that _htmlify and the   *)
(* " AND " joins are real transformations of a name.  Python sets are      *)
(* iterated in an unspecified order: every operator whose result depends   *)
(* on such an order returns the SET of results the orders can produce.     *)
EXTENDS Integers, Sequences, FiniteSets, TLC

\* ruleset: the Ruleset the caller holds (a set of rules compared by value).
\* part:    the result of a call of _partition_ruleset on it, once made.
\* out:     the result of a call of ruleset_hierarchy_tree on it, once made:
\*          whether it returned or raised, the merge flag, the tree as built
\*          by _extract_hierarchy_node (raw, kept as it was before the
\*          annotation pass rewrote it in place) and the tree returned.
VARIABLES ruleset, part, out

vars == <<ruleset, part, out>>

----------------------------------------------------------------------------
(* Input universe *)

\* Largest number of rules of an input ruleset.
MaxRules == 3

Terms == {"A", "B", "C"}

Conclusions == {"X", "Y"}

\* The score and the confidence the input clause with these terms and this
\* conclusion carries: every input rule has a score of its own.
TermWeight(t) == CASE t = "A" -> 1 [] t = "B" -> 2 [] OTHER -> 4

RECURSIVE WeightSum(_)
WeightSum(ts) ==
    IF ts = {} THEN 0
    ELSE LET t == CHOOSE x \in ts : TRUE IN TermWeight(t) + WeightSum(ts \ {t})

InputScore(ts, c) == 1 + WeightSum(ts) + (IF c = "Y" THEN 8 ELSE 0)

InputConfidence(ts, c) == 1 + (Cardinality(ts) % 2)

\* str(term): "(<variable> <operator> <threshold>)", as tokens.
TermStr(t) ==
    CASE t = "A" -> <<"a", "<=", "0">>
      [] t = "B" -> <<"b", ">=", "1">>
      [] OTHER   -> <<"c", ">", "2">>

\* str(rule.conclusion)
ConclusionStr(c) == <<c>>

\* ConjunctiveClause(terms=..., confidence=..., score=...)
ConjunctiveClause(terms, confidence, score) ==
    [terms |-> terms, confidence |-> confidence, score |-> score]

\* Rule(premise=..., conclusion=...); the premise is a set of clauses.
Rule(premise, conclusion) == [premise |-> premise, conclusion |-> conclusion]

\* Ruleset(rules=..., feature_names=..., output_class_names=..., regression=...)
Ruleset(rules, feature_names, output_class_names, regression) ==
    [rules |-> rules, feature_names |-> feature_names,
     output_class_names |-> output_class_names, regression |-> regression]

\* len(ruleset)
RulesetLen(rs) == Cardinality(rs.rules)

\* Input rules: a premise of no clause or of one clause.
Rules ==
    {Rule({}, c) : c \in Conclusions}
    \cup {Rule({ConjunctiveClause(ts, InputConfidence(ts, c), InputScore(ts, c))}, c) :
            ts \in SUBSET Terms, c \in Conclusions}

RECURSIVE SubsetsUpTo(_, _)
SubsetsUpTo(S, k) ==
    IF k = 0 THEN {{}}
    ELSE LET smaller == SubsetsUpTo(S, k - 1)
         IN  smaller \cup UNION {{T \cup {x} : x \in S \ T} : T \in smaller}

Rulesets ==
    {Ruleset(rs, <<"a", "b", "c">>, <<"X", "Y">>, FALSE) : rs \in SubsetsUpTo(Rules, MaxRules)}

----------------------------------------------------------------------------
(* Helpers for unordered iteration *)

\* All the orders in which a set can be iterated.
RECURSIVE Perms(_)
Perms(S) ==
    IF S = {} THEN {<<>>}
    ELSE UNION {{<<x>> \o p : p \in Perms(S \ {x})} : x \in S}

----------------------------------------------------------------------------
(* _htmlify *)

htmlify(s) ==
    [i \in 1..Len(s) |->
        IF s[i] = "<=" THEN "&leq;"
        ELSE IF s[i] = ">=" THEN "&geq;"
        ELSE s[i]]

----------------------------------------------------------------------------
(* _get_term_counts *)

\* The (rule, clause) pairs the nested loops over ruleset.rules visit.
RuleClauses(rs) == UNION {{<<r, cl>> : cl \in r.premise} : r \in rs.rules}

\* all_terms
AllTerms(rs) == UNION {rc[2].terms : rc \in RuleClauses(rs)}

\* num_used_rules_per_term_map[t]
TermCount(rs, t) == Cardinality({rc \in RuleClauses(rs) : t \in rc[2].terms})

\* The possible values of used_terms: list(all_terms) in any order, then a
\* stable sort by descending count.
get_term_counts(rs) ==
    {s \in Perms(AllTerms(rs)) :
        \A i \in 1..(Len(s) - 1) : TermCount(rs, s[i]) >= TermCount(rs, s[i + 1])}

----------------------------------------------------------------------------
(* _partition_ruleset *)

\* Mutant: the rewritten clause is built without score=clause.score.
contain_rules_default_score(rs, term) ==
    {Rule({ConjunctiveClause(rc[2].terms \ {term}, rc[2].confidence, 0)},
          rc[1].conclusion) :
        rc \in {x \in RuleClauses(rs) : term \in x[2].terms}}

contain_rules(rs, term) ==
    {Rule({ConjunctiveClause(rc[2].terms \ {term}, rc[2].confidence, rc[2].score)},
          rc[1].conclusion) :
        rc \in {x \in RuleClauses(rs) : term \in x[2].terms}}

disjoint_rules(rs, term) ==
    {Rule({rc[2]}, rc[1].conclusion) :
        rc \in {x \in RuleClauses(rs) : term \notin x[2].terms}}

partition_ruleset(rs, term) ==
    [contain  |-> Ruleset(contain_rules(rs, term), rs.feature_names,
                          rs.output_class_names, rs.regression),
     disjoint |-> Ruleset(disjoint_rules(rs, term), rs.feature_names,
                          rs.output_class_names, rs.regression)]

----------------------------------------------------------------------------
(* _extract_hierarchy_node *)

\* What a call does: it returns a list of nodes, or it raises.
Returned(nodes) == [raised |-> FALSE, nodes |-> nodes]

Raised == [raised |-> TRUE, nodes |-> <<>>]

\* name of a node for a term: _htmlify(str(term)) (dataset is None)
TermName(t) == htmlify(TermStr(t))

\* " AND ".join(map(str, terms)), for the terms in the order iterated
RECURSIVE JoinAnd(_)
JoinAnd(order) ==
    IF Len(order) = 1 THEN TermStr(Head(order))
    ELSE TermStr(Head(order)) \o <<"AND">> \o JoinAnd(Tail(order))

RECURSIVE TermChain(_, _)
\* Mutant: the chain restarts at every term, so only the last term's node
\* is kept above the conclusion.
TermChain_last_only(order, conclusion_node) ==
    [name |-> TermName(order[Len(order)]), children |-> <<conclusion_node>>]

\* The chain first -> ... -> current with the conclusion appended last.
TermChain(order, conclusion_node) ==
    IF Len(order) = 0 THEN conclusion_node
    ELSE [name |-> TermName(Head(order)),
          children |-> <<TermChain(Tail(order), conclusion_node)>>]

\* [BASE CASE] for the rule and the clause picked (has_clause = FALSE: None)
BaseCaseNodes(rule, has_clause, clause, merge) ==
    LET conclusion_node ==
            [name |-> htmlify(ConclusionStr(rule.conclusion)),
             children |-> <<>>,
             score |-> IF has_clause THEN clause.score ELSE 0]
    IN  IF has_clause /\ clause.terms # {}
        THEN IF merge
             THEN {<<[name |-> htmlify(JoinAnd(order)),
                      children |-> <<conclusion_node>>]>> :
                        order \in Perms(clause.terms)}
             ELSE {<<TermChain(order, conclusion_node)>> : order \in Perms(clause.terms)}
        ELSE {<<conclusion_node>>}

BaseCase(rs, merge) ==
    LET rule == CHOOSE r \in rs.rules : TRUE
    IN  IF rule.premise = {}
        THEN {Returned(n) : n \in BaseCaseNodes(rule, FALSE, rule, merge)}
        ELSE UNION {{Returned(n) : n \in BaseCaseNodes(rule, TRUE, cl, merge)} :
                        cl \in rule.premise}

\* [next_node] + <nodes of the disjoint ruleset>; a raise in either
\* recursive call propagates.
Combine(next_term, c, d) ==
    IF c.raised \/ d.raised THEN Raised
    ELSE Returned(<<[name |-> TermName(next_term), children |-> c.nodes]>> \o d.nodes)

RECURSIVE extract_hierarchy_node(_, _)
extract_hierarchy_node(rs, merge) ==
    IF RulesetLen(rs) = 0 THEN {Returned(<<>>)}
    ELSE IF RulesetLen(rs) = 1 THEN BaseCase(rs, merge)
    ELSE UNION {
            IF Len(sorted_terms) = 0
            THEN {Raised}        \* sorted_terms[0]: IndexError
            ELSE LET next_term == sorted_terms[1]
                     p == partition_ruleset(rs, next_term)
                 IN  {Combine(next_term, c, d) :
                        c \in extract_hierarchy_node(p.contain, merge),
                        d \in extract_hierarchy_node(p.disjoint, merge)}
            : sorted_terms \in get_term_counts(rs)}

----------------------------------------------------------------------------
(* _compute_tree_properties *)

\* class_counts[class_name] = count + class_counts.get(class_name, 0)
AddCounts(a, b) ==
    [k \in (DOMAIN a) \cup (DOMAIN b) |->
        (IF k \in DOMAIN a THEN a[k] ELSE 0) + (IF k \in DOMAIN b THEN b[k] ELSE 0)]

RECURSIVE SumDescendants(_)
\* Mutant: the child itself is not counted.
SumDescendants_without_child(children) ==
    IF Len(children) = 0 THEN 0
    ELSE Head(children).num_descendants + SumDescendants(Tail(children))

\* tree["num_descendants"] += child["num_descendants"] + 1, over the children
SumDescendants(children) ==
    IF Len(children) = 0 THEN 0
    ELSE (Head(children).num_descendants + 1) + SumDescendants(Tail(children))

RECURSIVE SumCounts(_)
SumCounts(children) ==
    IF Len(children) = 0 THEN [k \in {} |-> 0]
    ELSE AddCounts(Head(children).class_counts, SumCounts(Tail(children)))

\* The collapse of a node into its single child.
Collapse(tree) ==
    LET old_child == tree.children[1]
    IN  [tree EXCEPT !.children = old_child.children,
                     !.name = @ \o <<"AND">> \o old_child.name]

\* The default of the merge parameter, which the recursive call leaves unset.
MergeDefault == FALSE

RECURSIVE compute_tree_properties(_, _, _)
compute_tree_properties(tree, depth, merge) ==
    IF Len(tree.children) = 0
    THEN [depth |-> depth, num_descendants |-> 0,
          class_counts |-> (tree.name :> 1)] @@ tree
    ELSE LET t1 == IF /\ depth # 0
                      /\ Len(tree.children) = 1
                      /\ merge
                      /\ Len(tree.children[1].children) # 0
                   THEN Collapse(tree)
                   ELSE tree
             kids == [i \in 1..Len(t1.children) |->
                        compute_tree_properties(t1.children[i], depth + 1, MergeDefault)]
         IN  [depth |-> depth,
              num_descendants |-> SumDescendants(kids),
              class_counts |-> SumCounts(kids),
              children |-> kids] @@ t1

----------------------------------------------------------------------------
(* ruleset_hierarchy_tree *)

\* The possible results of a call: the raw tree built first is kept next to
\* the annotated tree returned.
ruleset_hierarchy_tree(rs, merge) ==
    {IF o.raised
     THEN [status |-> "raised", raw |-> [name |-> <<"ruleset">>, children |-> <<>>],
           tree |-> [name |-> <<"ruleset">>, children |-> <<>>]]
     ELSE LET tree == [name |-> <<"ruleset">>, children |-> o.nodes]
          IN  [status |-> "returned", raw |-> tree,
               tree |-> compute_tree_properties(tree, 0, merge)]
     : o \in extract_hierarchy_node(rs, merge)}

----------------------------------------------------------------------------
(* State machine *)

NoPart == [status |-> "none", term |-> "A",
           contain |-> Ruleset({}, <<>>, <<>>, FALSE),
           disjoint |-> Ruleset({}, <<>>, <<>>, FALSE)]

NoCall == [status |-> "none", merge |-> FALSE,
           raw |-> [name |-> <<"ruleset">>, children |-> <<>>],
           tree |-> [name |-> <<"ruleset">>, children |-> <<>>]]

Init ==
    /\ ruleset \in Rulesets
    /\ part = NoPart
    /\ out = NoCall

\* A caller partitions the ruleset on term t.
CallPartition(t) ==
    /\ part.status = "none"
    /\ out.status = "none"
    /\ part' = [status |-> "done", term |-> t,
                contain |-> partition_ruleset(ruleset, t).contain,
                disjoint |-> partition_ruleset(ruleset, t).disjoint]
    /\ UNCHANGED <<ruleset, out>>

\* A caller asks for the tree of the ruleset with the given merge flag.
CallTree(m) ==
    /\ part.status = "none"
    /\ out.status = "none"
    /\ \E res \in ruleset_hierarchy_tree(ruleset, m) :
            out' = [status |-> res.status, merge |-> m, raw |-> res.raw, tree |-> res.tree]
    /\ UNCHANGED <<ruleset, part>>

Next ==
    \/ \E t \in Terms : CallPartition(t)
    \/ \E m \in BOOLEAN : CallTree(m)

Spec == Init /\ [][Next]_vars

----------------------------------------------------------------------------
(* Reading a tree *)

RECURSIVE NodesOf(_), NodesOfSeq(_)
\* Every node of the subtree of n, n first.
NodesOf(n) == <<n>> \o NodesOfSeq(n.children)

NodesOfSeq(children) ==
    IF Len(children) = 0 THEN <<>>
    ELSE NodesOf(Head(children)) \o NodesOfSeq(Tail(children))

\* A leaf: no children, and a score.
IsLeaf(n) == Len(n.children) = 0 /\ "score" \in DOMAIN n

NodeCount(n) == Len(NodesOf(n))

LeafCount(n) == Cardinality({i \in 1..Len(NodesOf(n)) : IsLeaf(NodesOf(n)[i])})

RECURSIVE LeafPaths(_, _), LeafPathsSeq(_, _)
\* The leaves below n, each with the names of the nodes from n down to it.
LeafPaths(n, path) ==
    IF Len(n.children) = 0
    THEN IF "score" \in DOMAIN n
         THEN <<[path |-> path, name |-> n.name, score |-> n.score]>>
         ELSE <<>>
    ELSE LeafPathsSeq(n.children, Append(path, n.name))

LeafPathsSeq(children, path) ==
    IF Len(children) = 0 THEN <<>>
    ELSE LeafPaths(Head(children), path) \o LeafPathsSeq(Tail(children), path)

\* The leaves of a tree, the root left out of the paths.
TreeLeaves(tree) == LeafPathsSeq(tree.children, <<>>)

RECURSIVE SumValues(_)
SumValues(f) ==
    IF DOMAIN f = {} THEN 0
    ELSE LET k == CHOOSE x \in DOMAIN f : TRUE
         IN  f[k] + SumValues([y \in (DOMAIN f) \ {k} |-> f[y]])

\* The score the leaf of a rule carries: its clause's, 0 without a clause.
RuleScore(r) == IF r.premise = {} THEN 0 ELSE (CHOOSE cl \in r.premise : TRUE).score

RuleTerms(r) == IF r.premise = {} THEN {} ELSE (CHOOSE cl \in r.premise : TRUE).terms

LeafOfRule(leaf, r) ==
    /\ leaf.name = htmlify(ConclusionStr(r.conclusion))
    /\ leaf.score = RuleScore(r)

SingleClause(rs) == \A r \in rs.rules : Cardinality(r.premise) = 1

TreeReturned == out.status = "returned"

----------------------------------------------------------------------------
(* Claims *)

\* C1 (Completeness): the tree returned for a ruleset whose rules have at most
\* one premise clause has exactly len(rules) leaves, and every rule has
\* exactly one leaf (its conclusion and its score), no leaf being of no rule.
C1_Completeness ==
    TreeReturned =>
        LET leaves == TreeLeaves(out.tree)
        IN  /\ LeafCount(out.tree) = RulesetLen(ruleset)
            /\ \A r \in ruleset.rules :
                  Cardinality({i \in 1..Len(leaves) : LeafOfRule(leaves[i], r)}) = 1
            /\ \A i \in 1..Len(leaves) : \E r \in ruleset.rules : LeafOfRule(leaves[i], r)

\* C2 (Termination without error): on a ruleset whose rules all have exactly
\* one premise clause, ruleset_hierarchy_tree returns a tree and never raises.
C2_NoErrorPath ==
    (SingleClause(ruleset) /\ out.status # "none") => out.status = "returned"

RECURSIVE CollapsedAsClaimed(_, _, _)
\* res is the raw node annotated with every visited non-root node that has
\* exactly one child, itself with children, collapsed into that child.
CollapsedAsClaimed(raw_node, res, depth) ==
    LET eff == IF /\ depth # 0
                  /\ Len(raw_node.children) = 1
                  /\ Len(raw_node.children[1].children) # 0
               THEN Collapse(raw_node)
               ELSE raw_node
    IN  /\ res.name = eff.name
        /\ Len(res.children) = Len(eff.children)
        /\ \A i \in 1..Len(eff.children) :
              CollapsedAsClaimed(eff.children[i], res.children[i], depth + 1)

\* C3 (Collapse step): with merge=True the annotation pass collapses every
\* non-root node that has, when visited, exactly one child that itself has
\* children: it takes over that child's children and appends " AND " and
\* the child's name to its own name.  Stated on rulesets of single-clause
\* rules, where the extraction loses no rule.
C3_CollapseStep ==
    (TreeReturned /\ out.merge /\ SingleClause(ruleset)) =>
        CollapsedAsClaimed(out.raw, out.tree, 0)

\* C4 (Empty-premise pass-through): every rule whose premise has no clause is
\* in the Disjoint output of the partition, unchanged, and not in Contains.
C4_EmptyPremisePassThrough ==
    part.status = "done" =>
        \A r \in ruleset.rules :
            r.premise = {} => (r \in part.disjoint.rules /\ r \notin part.contain.rules)

\* The rule a rule with term T becomes in Contains.
Stripped(r, T) ==
    LET cl == CHOOSE c \in r.premise : TRUE
    IN  Rule({ConjunctiveClause(cl.terms \ {T}, cl.confidence, cl.score)}, r.conclusion)

\* C5 (Partition correctness): on a ruleset of single-clause rules, every rule
\* with T yields one rule of Contains (T removed; conclusion, confidence and
\* score kept) and is not in Disjoint, every rule without T is in Disjoint
\* unchanged, every output rule comes from exactly one input rule, and
\* |Contains| + |Disjoint| = |R|.
C5_PartitionCorrect ==
    (part.status = "done" /\ SingleClause(ruleset)) =>
        LET R == ruleset.rules
            T == part.term
            C == part.contain.rules
            D == part.disjoint.rules
            With == {r \in R : T \in RuleTerms(r)}
        IN  /\ \A r \in With : Stripped(r, T) \in C /\ r \notin D
            /\ \A r \in R \ With : r \in D
            /\ \A c \in C :
                  /\ Cardinality({r \in With : Stripped(r, T) = c}) = 1
                  /\ \A cl \in c.premise : T \notin cl.terms
            /\ \A d \in D : d \in R \ With
            /\ Cardinality(C) + Cardinality(D) = Cardinality(R)

C5_Witness ==
    /\ part.status = "done"
    /\ SingleClause(ruleset)
    /\ RulesetLen(ruleset) = MaxRules
    /\ Cardinality(part.contain.rules) >= 2
    /\ part.disjoint.rules # {}
    /\ \E r \in ruleset.rules : Cardinality(RuleTerms(r)) >= 2 /\ part.term \in RuleTerms(r)

\* C6 (Class-count invariant): in the returned tree, for every ruleset (the
\* empty one too) and every node (the root too), the values of class_counts
\* sum to the number of leaves of the node's subtree, and the class_counts of
\* a node with children is the key-wise sum of its children's.
C6_ClassCounts ==
    TreeReturned =>
        \A i \in 1..NodeCount(out.tree) :
            LET n == NodesOf(out.tree)[i]
            IN  /\ SumValues(n.class_counts) = LeafCount(n)
                /\ Len(n.children) # 0 => n.class_counts = SumCounts(n.children)

RECURSIVE ChildSum(_)
\* The sum over the children of (num_descendants + 1).
ChildSum(children) ==
    IF Len(children) = 0 THEN 0
    ELSE Head(children).num_descendants + 1 + ChildSum(Tail(children))

\* C7 (Count invariant): in the returned tree, for either merge setting,
\* num_descendants of every node is the number of nodes strictly below it,
\* which is the sum over its children of (num_descendants + 1) and 0 for a
\* childless node; the root's is the node count of the tree minus 1.
C7_NumDescendants ==
    TreeReturned =>
        /\ out.tree.num_descendants = NodeCount(out.tree) - 1
        /\ \A i \in 1..NodeCount(out.tree) :
              LET n == NodesOf(out.tree)[i]
              IN  /\ n.num_descendants = NodeCount(n) - 1
                  /\ n.num_descendants = ChildSum(n.children)
                  /\ Len(n.children) = 0 => n.num_descendants = 0

C7_Witness ==
    /\ TreeReturned
    /\ out.merge
    /\ RulesetLen(ruleset) = MaxRules
    /\ out.tree.num_descendants >= 6
    /\ \E i \in 1..Len(out.tree.children) : out.tree.children[i].num_descendants >= 4

\* The number of leaves with this name and score.
LeafNumber(tree, name, score) ==
    Cardinality({i \in 1..Len(TreeLeaves(tree)) :
        TreeLeaves(tree)[i].name = name /\ TreeLeaves(tree)[i].score = score})

SameLeaves(t1, t2) ==
    /\ Len(TreeLeaves(t1)) = Len(TreeLeaves(t2))
    /\ \A i \in 1..Len(TreeLeaves(t1)) :
          LET l == TreeLeaves(t1)[i]
          IN  LeafNumber(t1, l.name, l.score) = LeafNumber(t2, l.name, l.score)

\* C8 (Merge independence of the leaves): for any ruleset, the trees for
\* merge=True and merge=False have the same multiset of leaf names and
\* scores, and the multiset of leaf names is that of the rules' conclusions.
C8_MergeIndependentLeaves ==
    TreeReturned =>
        /\ \A other \in ruleset_hierarchy_tree(ruleset, ~out.merge) :
              other.status = "returned" /\ SameLeaves(out.tree, other.tree)
        /\ Len(TreeLeaves(out.tree)) = RulesetLen(ruleset)
        /\ \A c \in Conclusions :
              Cardinality({i \in 1..Len(TreeLeaves(out.tree)) :
                              TreeLeaves(out.tree)[i].name = htmlify(ConclusionStr(c))})
                = Cardinality({r \in ruleset.rules : r.conclusion = c})

\* The number of rules whose clause contains term t.
UsageCount(rs, t) == Cardinality({r \in rs.rules : \E cl \in r.premise : t \in cl.terms})

\* nodes is a split on a most used term T, over the extraction of
\* Contains(R, T), followed by the extraction of Disjoint(R, T).
GreedySplitOf(rs, merge, nodes) ==
    /\ Len(nodes) >= 1
    /\ \E T \in AllTerms(rs) :
          /\ \A u \in AllTerms(rs) : UsageCount(rs, u) <= UsageCount(rs, T)
          /\ nodes[1].name = TermName(T)
          /\ "score" \notin DOMAIN nodes[1]
          /\ Len(nodes[1].children) >= 1
          /\ Returned(nodes[1].children)
                \in extract_hierarchy_node(partition_ruleset(rs, T).contain, merge)
          /\ Returned(Tail(nodes))
                \in extract_hierarchy_node(partition_ruleset(rs, T).disjoint, merge)

\* C9 (Greedy split and sibling order): for a ruleset with two or more rules
\* _extract_hierarchy_node returns a sequence whose first element is a split
\* node named after a term of maximal usage count, with the extraction of
\* Contains as its non-empty children, followed by the extraction of Disjoint.
\* Stated on rulesets of single-clause rules (the usage count of a term is
\* the number of rules whose clause contains it).
C9_GreedySplit ==
    (out.status # "none" /\ RulesetLen(ruleset) >= 2 /\ SingleClause(ruleset)) =>
        /\ out.status = "returned"
        /\ GreedySplitOf(ruleset, out.merge, out.raw.children)

\* The names on the path are those of the rule's terms, each exactly once.
PathOfRule(leaf, r) ==
    /\ Len(leaf.path) = Cardinality(RuleTerms(r))
    /\ {leaf.path[j] : j \in 1..Len(leaf.path)} = {TermName(t) : t \in RuleTerms(r)}

\* C10 (Path soundness): with merge=False, on a ruleset of single-clause
\* rules for which the tree is returned, the leaves and the rules correspond
\* one to one, so that the split nodes from below the root down to a leaf
\* name exactly the terms of the rule's clause, each once, and the leaf has
\* the rule's conclusion and its clause's score.
C10_PathSoundness ==
    (TreeReturned /\ ~out.merge /\ SingleClause(ruleset)) =>
        LET leaves == TreeLeaves(out.tree)
        IN  /\ Len(leaves) = RulesetLen(ruleset)
            /\ \A i \in 1..Len(leaves) :
                  \E r \in ruleset.rules : LeafOfRule(leaves[i], r) /\ PathOfRule(leaves[i], r)
            /\ \A r \in ruleset.rules :
                  Cardinality({i \in 1..Len(leaves) :
                      LeafOfRule(leaves[i], r) /\ PathOfRule(leaves[i], r)}) = 1

C10_Witness ==
    /\ TreeReturned
    /\ ~out.merge
    /\ SingleClause(ruleset)
    /\ RulesetLen(ruleset) = MaxRules
    /\ \E i \in 1..Len(TreeLeaves(out.tree)) : Len(TreeLeaves(out.tree)[i].path) = 3
    /\ \E i \in 1..Len(TreeLeaves(out.tree)) : Len(TreeLeaves(out.tree)[i].path) = 1

=============================================================================
